---- MODULE Spec2Model ----
(***************************************************************************)
(* Model of src/scrape_jobs.py: main().  One run of the job scraper:       *)
(* acquire the browser session, load the page, wait, scroll until the page *)
(* height is stable or 20 cycles have been used, collect the candidate     *)
(* anchors, extract and de-duplicate them, write jobs.csv, quit.           *)
(*                                                                         *)
(* Python strings are sequences of one-character strings, so that strip()  *)
(* is computed and not assumed.                                            *)
(***************************************************************************)
EXTENDS Integers, Sequences, FiniteSets, TLC

VARIABLES
    pc,             \* position of main(): the next statement group to run
    driver,         \* the browser session: "none", "open", "quit"
    acquired,       \* number of sessions created (webdriver.Chrome)
    released,       \* number of driver.quit() calls
    settleAt,       \* page: index of the first reading from which the height stays constant
    page,           \* page: the current document.body.scrollHeight
    hist,           \* the last HistLen heights the adapter returned (history)
    last_height,    \* local last_height (0 before line 31)
    stable_rounds,  \* local stable_rounds
    cycles,         \* number of iterations of the for loop of line 33 run so far
    dom,            \* page: the nodes of the document when find_elements runs
    cards,          \* local cards: the elements find_elements returned
    idx,            \* number of elements of cards the loop of line 52 has consumed
    seen,           \* local seen: set of hrefs
    jobs,           \* local jobs: list of records
    calls,          \* the adapter calls the latest iteration of line 52 made on its element
    csvOpened,      \* whether jobs.csv was opened for writing (created/truncated)
    csvRows,        \* rows written to jobs.csv, the header first
    raisedAt,       \* "none", or the position at which an exception was raised
    exitCode        \* -1 while running, then the exit status of the process

vars == << pc, driver, acquired, released, settleAt, page, hist, last_height,
           stable_rounds, cycles, dom, cards, idx, seen, jobs, calls,
           csvOpened, csvRows, raisedAt, exitCode >>

sessionVars == << driver, acquired, released >>

scrollVars == << settleAt, page, hist, last_height, stable_rounds, cycles >>
cardVars   == << dom, cards, idx, seen, jobs, calls >>
fileVars   == << csvOpened, csvRows >>

----------------------------------------------------------------------------
(* Bounds of the model                                                     *)

MaxHeights == 3     \* number of distinct page heights
HistLen    == 4     \* length of the window of remembered readings
MaxCards   == 3     \* largest number of elements find_elements returns

(* Program constants                                                       *)

maxCycles          == 20    \* for _ in range(20)
stabilityThreshold == 2     \* if stable_rounds >= 2

Heights == { 100 * i : i \in 1..MaxHeights }

----------------------------------------------------------------------------
(* Strings                                                                 *)

Whitespace == { " ", "\t", "\n", "\r" }

RECURSIVE LStrip(_)
LStrip(s) ==
    IF s = << >> THEN << >>
    ELSE IF Head(s) \in Whitespace THEN LStrip(Tail(s)) ELSE s

RECURSIVE RStrip(_)
RStrip(s) ==
    IF s = << >> THEN << >>
    ELSE IF s[Len(s)] \in Whitespace THEN RStrip(SubSeq(s, 1, Len(s) - 1)) ELSE s

\* str.strip()
Strip(s) == RStrip(LStrip(s))

EmptyStr == << >>

\* What an adapter call can yield besides a string.  No string has a
\* character of more than one letter, so these differ from every string.
None    == << "<None>" >>       \* get_attribute: the attribute is absent
Raises  == << "<raises>" >>     \* the call raises (e.g. stale element)
Missing == << "<missing>" >>    \* find_element raises NoSuchElementException

\* x or ''
OrEmpty(x) == IF x = None THEN EmptyStr ELSE x

----------------------------------------------------------------------------
(* The page's elements.  An element is what the adapter answers for it:    *)
(*   href, aria : get_attribute(...)  -- a string, None or Raises          *)
(*   text       : .text               -- a string or Raises                *)
(*   heading    : text of the first heading/title descendant, or Missing   *)
(*   loc        : text of the 'location' descendant, or Missing            *)
(*   ploc       : text of the 'location' element under the parent, Missing *)

Elem(h, t, ar, hd, l, pl) ==
    [ href |-> h, text |-> t, aria |-> ar, heading |-> hd, loc |-> l, ploc |-> pl ]

Job1     == << "/", "j", "o", "b", "s", "/", "1" >>
Job1Sp   == Job1 \o << " " >>
Job2     == << "/", "j", "o", "b", "s", "/", "2" >>
Blank    == << " " >>
Engineer == << "E", "n", "g", "i", "n", "e", "e", "r" >>
Analyst  == << "A", "n", "a", "l", "y", "s", "t" >>
Lisbon   == << " ", "L", "i", "s", "b", "o", "n" >>

\* An anchor with the given href and own text, no aria-label, no heading,
\* and a location block under its parent.
Anchor(h, t) == Elem(h, t, None, Missing, Missing, Lisbon)

\* An anchor with the given href, blank own text and nothing else.
Bare(h) == Elem(h, Blank, None, Missing, Missing, Missing)

Elems ==
    { Anchor(h, Engineer) : h \in { None, EmptyStr, Blank, Job1, Job1Sp, Job2 } }
    \cup { Bare(Job1), Anchor(Job2, Analyst), Anchor(Job2, Raises),
           Anchor(Raises, Engineer), Elem(Job2, Blank, Raises, Missing, Missing, Missing) }

----------------------------------------------------------------------------
(* Lines 47-50: the document and the selector group                        *)

\* The selectors of the group of line 49, in the order written.
SelJobs     == "a[href*=/jobs/]"
SelCareers  == "a[href*=/careers/]"
SelClassJob == "a[class*=job i]"
SelRoleJob  == "[role=link][class*=job i]"

PatternSeq == << SelJobs, SelCareers, SelClassJob, SelRoleJob >>

Patterns == { PatternSeq[i] : i \in DOMAIN PatternSeq }

\* A node of the document: an element and the selectors it matches.
Node(e, ms) == [ el |-> e, matches |-> ms ]

\* Mutant: one query per selector, in selector order, results concatenated.
FindElements_perPattern(d) ==
    LET RECURSIVE Of(_, _)
        Of(p, n) == IF n = 0 THEN << >>
                    ELSE IF p \in d[n].matches THEN Append(Of(p, n - 1), d[n].el)
                    ELSE Of(p, n - 1)
        RECURSIVE Upto(_)
        Upto(k) == IF k = 0 THEN << >>
                   ELSE Upto(k - 1) \o Of(PatternSeq[k], Len(d))
    IN  Upto(Len(PatternSeq))

\* Lines 47-50: one find_elements call with the selector group: the nodes
\* that match at least one selector, each once, in document order.
RECURSIVE FindElements(_)
FindElements(d) ==
    IF d = << >> THEN << >>
    ELSE LET front == FindElements(SubSeq(d, 1, Len(d) - 1))
             last  == d[Len(d)]
         IN  IF last.matches # { } THEN Append(front, last.el) ELSE front

\* The documents in which every element of a list of es matches the
\* class selector of the group and nothing else is on the page.
AllMatching(ess) ==
    { [ i \in 1..Len(es) |-> Node(es[i], { SelClassJob }) ] : es \in ess }

RECURSIVE SeqsUpTo(_, _)
SeqsUpTo(S, n) ==
    IF n = 0 THEN { << >> }
    ELSE LET shorter == SeqsUpTo(S, n - 1)
         IN  shorter \cup { Append(s, e) : s \in { t \in shorter : Len(t) = n - 1 }, e \in S }

\* The candidate lists find_elements may return.
Doms == SeqsUpTo(Elems, MaxCards)

Label   == << " ", "C", "o", "o", "k", " " >>
Heading == << "\n", "P", "i", "l", "o", "t" >>
Porto   == << "P", "o", "r", "t", "o", " " >>

\* Elements with every combination of answers to the title and location
\* queries of lines 59-78.
RichElems ==
    { Elem(Job1, t, ar, hd, l, pl) :
        t  \in { EmptyStr, Blank, Engineer, Raises },
        ar \in { None, Blank, Label, Raises },
        hd \in { Missing, Blank, Heading },
        l  \in { Missing, Blank, Porto },
        pl \in { Missing, Blank, Lisbon } }

\* Candidate lists of one such element, alone or followed by a plain anchor.
RichDoms ==
    { << e >> : e \in RichElems } \cup { << e, Anchor(Job2, Analyst) >> : e \in RichElems }

Careers9 == << "/", "c", "a", "r", "e", "e", "r", "s", "/", "9" >>

\* Nodes that match none, one or two selectors of the group.
PatternNodes ==
    { Node(Anchor(Job1, Engineer), { SelJobs, SelClassJob }),
      Node(Anchor(Job2, Analyst), { SelJobs }),
      Node(Anchor(Careers9, Engineer), { SelCareers }),
      Node(Anchor(Careers9, Analyst), { SelCareers, SelClassJob }),
      Node(Bare(None), { SelRoleJob }),
      Node(Bare(None), { }) }

\* Documents of up to MaxCards such nodes.
PatternDoms == SeqsUpTo(PatternNodes, MaxCards)

\* The candidate lists of a run that is about the scroll loop.
SmallDoms == { << >>, << Anchor(Job1, Engineer) >>, << Anchor(Job2, Raises) >> }

----------------------------------------------------------------------------
(* Lines 31-43: the scroll loop                                            *)

\* Mutant: the else branch of line 41 does not reset the streak.
StreakStep_noReset(equal, streak) == streak + 1

\* Mutant: the streak jumps by two on an unchanged reading.
StreakStep_double(equal, streak) == IF equal THEN streak + 2 ELSE 0

\* Lines 37-42: the streak after comparing the new height with the last one.
StreakStep(equal, streak) == IF equal THEN streak + 1 ELSE 0

\* Mutant: one unchanged reading is enough at line 39.
ShouldBreak_eager(streak) == streak >= 1

\* Mutant: > in place of >= at line 39.
ShouldBreak_strict(streak) == streak > stabilityThreshold

\* Line 39: if stable_rounds >= 2: break
ShouldBreak(streak) == streak >= stabilityThreshold

\* Mutant: one iteration too many at line 33.
LoopDone_late(c) == c > maxCycles

\* Mutant: one iteration too few at line 33.
LoopDone_early(c) == c >= maxCycles - 1

\* Line 33: range(20) is exhausted after c iterations.
LoopDone(c) == c >= maxCycles

\* The heights the page can have at reading i >= 1 (line 36 of cycle i;
\* reading 0 is line 31 and returns the height the page was loaded with):
\* free before settleAt, a change at settleAt, constant after it.
NextHeights(i) ==
    IF i > settleAt THEN { page }
    ELSE IF i = settleAt THEN Heights \ { page }
    ELSE Heights

Window(s) == IF Len(s) > HistLen THEN SubSeq(s, Len(s) - HistLen + 1, Len(s)) ELSE s

----------------------------------------------------------------------------
(* Lines 52-84: the candidate loop                                         *)

\* Line 53: href = a.get_attribute('href') or ''
Href(a) == OrEmpty(a.href)

\* Mutant: line 54 without the membership test.
Skip_noSeen(href, seenSet) == href = EmptyStr

\* Line 54: if not href or href in seen: continue
Skip(href, seenSet) == href = EmptyStr \/ href \in seenSet

\* Mutant: the try/except of lines 61-65 is missing, a heading that is not
\* found raises out of the loop.
TitleRaises_noTry(a) ==
    \/ a.text = Raises
    \/ Strip(a.text) = EmptyStr /\ a.aria = Raises
    \/ Strip(a.text) = EmptyStr /\ Strip(OrEmpty(a.aria)) = EmptyStr /\ a.heading = Missing

\* Line 59: the unguarded reads of a.text and of aria-label; aria-label is
\* read only when the stripped text is empty.
TitleRaises(a) ==
    \/ a.text = Raises
    \/ Strip(a.text) = EmptyStr /\ a.aria = Raises

\* Mutant: the aria-label is preferred to the element's own text.
Title_ariaFirst(a) ==
    LET label == Strip(OrEmpty(a.aria))
        t     == IF a.aria # Raises /\ label # EmptyStr THEN label ELSE Strip(a.text)
    IN  IF t # EmptyStr THEN t
        ELSE IF a.heading = Missing THEN EmptyStr ELSE Strip(a.heading)

\* Lines 59-65
Title(a) ==
    LET own == Strip(a.text)
        t   == IF own # EmptyStr THEN own ELSE Strip(OrEmpty(a.aria))
    IN  IF t # EmptyStr THEN t
        ELSE IF a.heading = Missing THEN EmptyStr ELSE Strip(a.heading)

\* Mutant: a location element with blank text counts as not found, and the
\* search goes on under the parent.
Location_nonEmptyWins(a) ==
    IF a.loc # Missing /\ Strip(a.loc) # EmptyStr THEN Strip(a.loc)
    ELSE IF a.ploc # Missing THEN Strip(a.ploc)
    ELSE EmptyStr

\* Lines 68-78
Location(a) ==
    IF a.loc # Missing THEN Strip(a.loc)
    ELSE IF a.ploc # Missing THEN Strip(a.ploc)
    ELSE EmptyStr

\* Lines 53-78: the adapter calls one iteration makes on its element, each
\* made only when control reaches it.
Queries(a, seenSet) ==
    LET ownEmpty  == Strip(a.text) = EmptyStr
        ariaEmpty == Strip(OrEmpty(a.aria)) = EmptyStr
    IN  IF a.href = Raises \/ Skip(Href(a), seenSet) THEN { "href" }
        ELSE IF a.text = Raises THEN { "href", "text" }
        ELSE IF ownEmpty /\ a.aria = Raises THEN { "href", "text", "aria" }
        ELSE { "href", "text", "loc" }
             \cup (IF ownEmpty THEN { "aria" } ELSE { })
             \cup (IF ownEmpty /\ ariaEmpty THEN { "heading" } ELSE { })
             \cup (IF a.loc = Missing THEN { "parent" } ELSE { })

\* Lines 80-84
Record(a, href) == [ title |-> Title(a), location |-> Location(a), link |-> href ]

\* Mutant: line 56 is missing, seen stays empty.
CardBody_noAdd(st, a) ==
    IF a.href = Raises THEN [ st EXCEPT !.raised = TRUE ]
    ELSE LET href == OrEmpty(a.href)
         IN  IF href = EmptyStr \/ href \in st.seen THEN st
             ELSE IF TitleRaises(a) THEN [ st EXCEPT !.raised = TRUE ]
                  ELSE [ st EXCEPT !.jobs = Append(st.jobs, Record(a, href)) ]

\* Mutant: a later duplicate fills in the title and location that the
\* record of its href lacks.
CardBody_merge(st, a) ==
    IF a.href = Raises THEN [ st EXCEPT !.raised = TRUE ]
    ELSE LET href == OrEmpty(a.href)
             new  == Record(a, href)
             Fill(r) == IF r.link # href THEN r
                        ELSE [ r EXCEPT !.title = IF @ = EmptyStr THEN new.title ELSE @,
                                        !.location = IF @ = EmptyStr THEN new.location ELSE @ ]
         IN  IF href = EmptyStr THEN st
             ELSE IF TitleRaises(a)
                  THEN [ st EXCEPT !.seen = st.seen \cup { href }, !.raised = TRUE ]
                  ELSE IF href \in st.seen
                       THEN [ st EXCEPT !.jobs = [ i \in 1..Len(st.jobs) |-> Fill(st.jobs[i]) ] ]
                       ELSE [ seen   |-> st.seen \cup { href },
                              jobs   |-> Append(st.jobs, new),
                              raised |-> FALSE ]

\* Mutant: line 80 inserts the record at the front of jobs.
CardBody_prepend(st, a) ==
    IF a.href = Raises THEN [ st EXCEPT !.raised = TRUE ]
    ELSE LET href == OrEmpty(a.href)
         IN  IF href = EmptyStr \/ href \in st.seen THEN st
             ELSE IF TitleRaises(a)
                  THEN [ st EXCEPT !.seen = st.seen \cup { href }, !.raised = TRUE ]
                  ELSE [ seen   |-> st.seen \cup { href },
                         jobs   |-> << Record(a, href) >> \o st.jobs,
                         raised |-> FALSE ]

\* Lines 53-84: one iteration of the loop over cards, from the locals
\* st = [seen, jobs, raised] and the element a.
CardBody(st, a) ==
    IF a.href = Raises THEN [ st EXCEPT !.raised = TRUE ]
    ELSE LET href == Href(a)
         IN  IF Skip(href, st.seen) THEN st
             ELSE IF TitleRaises(a)
                  THEN [ st EXCEPT !.seen = st.seen \cup { href }, !.raised = TRUE ]
                  ELSE [ seen   |-> st.seen \cup { href },
                         jobs   |-> Append(st.jobs, Record(a, href)),
                         raised |-> FALSE ]

\* Lines 45, 51: jobs = [], seen = set()
EmptyLocals == [ seen |-> { }, jobs |-> << >>, raised |-> FALSE ]

\* Lines 45-84 over a whole candidate list that raises nowhere.
RECURSIVE Assemble(_)
Assemble(cs) ==
    IF cs = << >> THEN EmptyLocals
    ELSE CardBody(Assemble(SubSeq(cs, 1, Len(cs) - 1)), cs[Len(cs)])

\* Lines 86-89
HeaderRow ==
    << << "t", "i", "t", "l", "e" >>,
       << "l", "o", "c", "a", "t", "i", "o", "n" >>,
       << "l", "i", "n", "k" >> >>

Row(r) == << r.title, r.location, r.link >>

\* Mutant: nothing is written when there are no records.
CsvOf_skipEmpty(js) ==
    IF js = << >> THEN << >>
    ELSE << HeaderRow >> \o [ i \in 1..Len(js) |-> Row(js[i]) ]

CsvOf(js) == << HeaderRow >> \o [ i \in 1..Len(js) |-> Row(js[i]) ]

----------------------------------------------------------------------------
(* Initial states                                                          *)

InitLocals ==
    /\ pc = "acquire"
    /\ driver = "none"
    /\ acquired = 0
    /\ released = 0
    /\ hist = << >>
    /\ last_height = 0
    /\ stable_rounds = 0
    /\ cycles = 0
    /\ dom = << >>
    /\ cards = << >>
    /\ idx = 0
    /\ seen = { }
    /\ jobs = << >>
    /\ calls = { }
    /\ csvOpened = FALSE
    /\ csvRows = << >>
    /\ raisedAt = "none"
    /\ exitCode = -1

\* Any page: it may keep changing up to any reading of the run.
InitScroll ==
    /\ InitLocals
    /\ settleAt \in 0..maxCycles
    /\ page \in Heights

\* A page that has finished loading before the run starts.
Init ==
    /\ InitLocals
    /\ settleAt = 0
    /\ page = 100

----------------------------------------------------------------------------
(* Actions                                                                 *)

Raise(at) ==
    /\ pc' = "finally"
    /\ raisedAt' = at

\* Line 16, outside the try block: the session is created, or
\* webdriver.Chrome raises and there is none.
Acquire ==
    /\ pc = "acquire"
    /\ \/ /\ driver' = "open"
          /\ acquired' = acquired + 1
          /\ pc' = "maximize"
          /\ UNCHANGED << released, raisedAt, exitCode >>
       \/ /\ pc' = "done"
          /\ raisedAt' = "acquire"
          /\ exitCode' = 1
          /\ UNCHANGED sessionVars
    /\ UNCHANGED << scrollVars, cardVars, fileVars >>

\* Line 17, a command to the session that is still outside the try block:
\* when it raises, the finally of line 93 is not in effect and the process
\* ends with the session open.
Maximize ==
    /\ pc = "maximize"
    /\ \/ /\ pc' = "get"
          /\ UNCHANGED << raisedAt, exitCode >>
       \/ /\ pc' = "done"
          /\ raisedAt' = "maximize"
          /\ exitCode' = 1
    /\ UNCHANGED << sessionVars, scrollVars, cardVars, fileVars >>

\* Line 20
Get ==
    /\ pc = "get"
    /\ \/ pc' = "wait" /\ UNCHANGED raisedAt
       \/ Raise("get")
    /\ UNCHANGED << sessionVars, scrollVars, cardVars, fileVars, exitCode >>

\* Lines 22-28: the wait ends, or times out after 15 s.
Wait ==
    /\ pc = "wait"
    /\ \/ pc' = "measure0" /\ UNCHANGED raisedAt
       \/ Raise("wait")
    /\ UNCHANGED << sessionVars, scrollVars, cardVars, fileVars, exitCode >>

\* Lines 31-32: the first reading, before any scroll.
Measure0 ==
    /\ pc = "measure0"
    /\ last_height' = page
    /\ hist' = << page >>
    /\ stable_rounds' = 0
    /\ pc' = "scroll"
    /\ UNCHANGED << sessionVars, settleAt, page, cycles, cardVars, fileVars, raisedAt, exitCode >>

Measure0Raises ==
    /\ pc = "measure0"
    /\ Raise("measure0")
    /\ UNCHANGED << sessionVars, scrollVars, cardVars, fileVars, exitCode >>

\* Lines 33-43: one iteration of the for loop.
ScrollCycle ==
    /\ pc = "scroll"
    /\ \E new_height \in NextHeights(cycles + 1) :
          LET equal  == new_height = last_height
              streak == StreakStep(equal, stable_rounds)
              break  == equal /\ ShouldBreak(streak)
          IN  /\ page' = new_height
              /\ hist' = Window(Append(hist, new_height))
              /\ stable_rounds' = streak
              /\ last_height' = IF break THEN last_height ELSE new_height
              /\ cycles' = cycles + 1
              /\ pc' = IF break \/ LoopDone(cycles + 1) THEN "collect" ELSE "scroll"
    /\ UNCHANGED << sessionVars, settleAt, cardVars, fileVars, raisedAt, exitCode >>

\* Lines 34, 36: execute_script raises inside the loop; nothing catches it
\* before the finally of line 93.
ScrollRaises ==
    /\ pc = "scroll"
    /\ Raise("scroll")
    /\ UNCHANGED << sessionVars, scrollVars, cardVars, fileVars, exitCode >>

\* Lines 45-51, on a page whose document is one of doms.
Collect(doms) ==
    /\ pc = "collect"
    /\ \E d \in doms :
          /\ dom' = d
          /\ cards' = FindElements(d)
          /\ idx' = 0
          /\ seen' = EmptyLocals.seen
          /\ jobs' = EmptyLocals.jobs
          /\ pc' = IF FindElements(d) = << >> THEN "write" ELSE "cards"
    /\ UNCHANGED << sessionVars, scrollVars, calls, fileVars, raisedAt, exitCode >>

CollectRaises ==
    /\ pc = "collect"
    /\ Raise("collect")
    /\ UNCHANGED << sessionVars, scrollVars, cardVars, fileVars, exitCode >>

\* Lines 52-84: one iteration of the loop over cards.
CardStep ==
    /\ pc = "cards"
    /\ LET st == CardBody([ seen |-> seen, jobs |-> jobs, raised |-> FALSE ], cards[idx + 1])
       IN  /\ seen' = st.seen
           /\ jobs' = st.jobs
           /\ idx' = idx + 1
           /\ calls' = Queries(cards[idx + 1], seen)
           /\ IF st.raised
                THEN Raise("cards")
                ELSE /\ pc' = IF idx + 1 = Len(cards) THEN "write" ELSE "cards"
                     /\ UNCHANGED raisedAt
    /\ UNCHANGED << sessionVars, scrollVars, dom, cards, fileVars, exitCode >>

\* Lines 86-91
WriteCsv ==
    /\ pc = "write"
    /\ \/ /\ csvOpened' = TRUE
          /\ csvRows' = CsvOf(jobs)
          /\ pc' = "finally"
          /\ UNCHANGED raisedAt
       \/ /\ Raise("write")
          /\ UNCHANGED fileVars
    /\ UNCHANGED << sessionVars, scrollVars, cardVars, exitCode >>

\* Lines 93-94, and the end of the process.
Finally ==
    /\ pc = "finally"
    /\ driver' = "quit"
    /\ released' = released + 1
    /\ UNCHANGED acquired
    /\ pc' = "done"
    /\ exitCode' = IF raisedAt = "none" THEN 0 ELSE 1
    /\ UNCHANGED << scrollVars, cardVars, fileVars, raisedAt >>

Steps(doms) ==
    \/ Acquire
    \/ Maximize
    \/ Get
    \/ Wait
    \/ Measure0
    \/ Measure0Raises
    \/ ScrollCycle
    \/ ScrollRaises
    \/ Collect(doms)
    \/ CollectRaises
    \/ CardStep
    \/ WriteCsv
    \/ Finally

Next == Steps(AllMatching(Doms))

NextScroll == Steps(AllMatching(SmallDoms))

\* Runs over a loaded page with any candidate list.
Spec == Init /\ [][Next]_vars

\* Runs over any page with a short candidate list.
SpecScroll == InitScroll /\ [][NextScroll]_vars

NextCollect == Steps(PatternDoms)

\* Runs over a loaded page whose nodes match the selectors in any way.
SpecCollect == Init /\ [][NextCollect]_vars

NextExtract == Steps(AllMatching(RichDoms))

\* Runs over a loaded page whose first candidate answers the title and
\* location queries in any way.
SpecExtract == Init /\ [][NextExtract]_vars

----------------------------------------------------------------------------
(* Properties of the scroll loop (checked under SpecScroll)                *)

BeforeCollect == { "acquire", "maximize", "get", "wait", "measure0", "scroll" }

\* The for loop of line 33 has ended, by break or by exhaustion.
LoopExited == pc \notin BeforeCollect /\ raisedAt \notin BeforeCollect

\* The loop ended by the break of line 40.
Converged == stable_rounds >= stabilityThreshold

\* The readings taken so far, line 31's first, are exactly s.
ReadingsAre(s) == cycles + 1 = Len(s) /\ hist = s

\* C1 as stated: whenever the readings are constant from reading k on
\* (k = settleAt, 0 <= k <= maxCycles), the loop ends converged after at
\* least k and at most k + stabilityThreshold cycles.
C1_Original ==
    LoopExited =>
        /\ Converged
        /\ settleAt <= cycles
        /\ cycles <= settleAt + stabilityThreshold

\* C1 as amended: when the readings are constant from reading k on and
\* k + stabilityThreshold <= maxCycles, the loop ends converged after at
\* least stabilityThreshold and at most k + stabilityThreshold cycles.
C1_Convergence ==
    (LoopExited /\ settleAt + stabilityThreshold <= maxCycles) =>
        /\ Converged
        /\ stabilityThreshold <= cycles
        /\ cycles <= settleAt + stabilityThreshold

\* The page settles at the last reading that still leaves room to converge,
\* and the loop converges on its last cycle.
C1_Witness ==
    /\ LoopExited
    /\ settleAt = maxCycles - stabilityThreshold
    /\ cycles = maxCycles
    /\ Converged

\* C2: the loop never runs more than maxCycles cycles, it is left once
\* maxCycles cycles have run, and when it ends with the streak below
\* stabilityThreshold then exactly maxCycles cycles were used, nothing was
\* raised and control is at candidate collection.
C2_BudgetSafety ==
    /\ cycles <= maxCycles
    /\ pc = "scroll" => cycles < maxCycles
    /\ pc = "collect" => raisedAt = "none"
    /\ (LoopExited /\ ~Converged) => cycles = maxCycles

\* The budget is exhausted without convergence and collection is next.
C2_Witness ==
    /\ pc = "collect"
    /\ cycles = maxCycles
    /\ ~Converged
    /\ raisedAt = "none"

\* C3 as stated: with the readings 100, 200, 200, 200 convergence is
\* declared once the reading of index 2 is taken, and the loop uses 3 cycles.
C3_Original ==
    /\ ReadingsAre(<< 100, 200, 200 >>) => (LoopExited /\ Converged)
    /\ ReadingsAre(<< 100, 200, 200, 200 >>) => LoopExited

\* C3 as amended: with the readings 100, 200, 200, 200 (100 being the
\* reading of line 31) the loop is still running with a streak of 1 after
\* the reading of index 2, and ends converged with the reading of index 3,
\* which is its third cycle.
C3_Scenario ==
    /\ ReadingsAre(<< 100, 200, 200 >>) =>
          (~LoopExited /\ stable_rounds = 1 /\ cycles = 2)
    /\ ReadingsAre(<< 100, 200, 200, 200 >>) =>
          (LoopExited /\ Converged /\ cycles = 3)

\* The scenario's four readings have been taken and the loop has ended.
C3_Witness ==
    /\ ReadingsAre(<< 100, 200, 200, 200 >>)
    /\ pc = "collect"

\* C10 as stated: a run in which the scroll or measure command of a cycle
\* raised still gets to candidate collection and writes the CSV file.
C10_Claim ==
    (pc = "done" /\ raisedAt = "scroll") => csvOpened

----------------------------------------------------------------------------
(* Properties of the candidate loop (checked under Spec)                   *)

\* The loop of line 52 has consumed every element of cards without raising.
CardsDone ==
    \/ pc = "write"
    \/ pc \in { "finally", "done" } /\ raisedAt \in { "none", "write" }

\* Number of elements of cards whose iteration ran to its end.
Completed == IF raisedAt = "cards" THEN idx - 1 ELSE idx

Links(js) == [ i \in 1..Len(js) |-> js[i].link ]

Hrefs(cs) == [ i \in 1..Len(cs) |-> Href(cs[i]) ]

Distinct(s) == \A i, j \in 1..Len(s) : i # j => s[i] # s[j]

\* The non-empty members of a sequence of hrefs, each at its first occurrence.
RECURSIVE FirstOccurrences(_)
FirstOccurrences(h) ==
    IF h = << >> THEN << >>
    ELSE LET n     == Len(h)
             front == FirstOccurrences(SubSeq(h, 1, n - 1))
         IN  IF h[n] = EmptyStr \/ \E j \in 1..(n - 1) : h[j] = h[n]
             THEN front
             ELSE Append(front, h[n])

\* Index of the first consumed element of cards whose href is l.
FirstWith(l) == CHOOSE i \in 1..idx :
                    /\ Href(cards[i]) = l
                    /\ \A j \in 1..(i - 1) : Href(cards[j]) # l

\* C4: at every point of the candidate loop no two records of jobs have the
\* same link, and no two rows written to jobs.csv have the same link.
C4_UniqueLinks ==
    /\ Distinct(Links(jobs))
    /\ csvOpened => Distinct([ i \in 1..(Len(csvRows) - 1) |-> csvRows[i + 1][3] ])

\* The file is written from a candidate list that repeats an element and
\* also holds a second href.
C4_Witness ==
    /\ csvOpened
    /\ Len(jobs) >= 2
    /\ \E i, j \in 1..Len(cards) : i < j /\ cards[i] = cards[j] /\ Href(cards[i]) # EmptyStr

Scenario5 == << Anchor(Job1, Engineer), Bare(Job1), Anchor(Job2, Analyst) >>

\* C5: every record carries the title and the location extracted from the
\* first candidate with its link, whatever later candidates with that link
\* hold; and the candidates (/jobs/1, Engineer), (/jobs/1, ""),
\* (/jobs/2, Analyst) give exactly the two records (/jobs/1, Engineer) and
\* (/jobs/2, Analyst).
C5_FirstSeenWins ==
    /\ \A n \in 1..Len(jobs) :
          /\ jobs[n].title = Title(cards[FirstWith(jobs[n].link)])
          /\ jobs[n].location = Location(cards[FirstWith(jobs[n].link)])
    /\ (CardsDone /\ cards = Scenario5) =>
          /\ Len(jobs) = 2
          /\ jobs[1].link = Job1 /\ jobs[1].title = Engineer
          /\ jobs[2].link = Job2 /\ jobs[2].title = Analyst

\* The first candidate of an href has neither title nor location, a later
\* one has both, and the record keeps the empty ones.
C5_Witness ==
    /\ CardsDone
    /\ cards = << Bare(Job1), Anchor(Job1, Engineer), Anchor(Job2, Analyst) >>
    /\ Len(jobs) = 2
    /\ jobs[1].title = EmptyStr
    /\ jobs[1].location = EmptyStr

\* C6: the links of jobs are the distinct non-empty hrefs of the candidates
\* consumed so far, in the order of their first occurrence.
C6_OrderPreserved ==
    Links(jobs) = FirstOccurrences(Hrefs(SubSeq(cards, 1, Completed)))

\* A duplicate of the first href comes after a second href.
C6_Witness ==
    /\ csvOpened
    /\ Len(cards) = 3
    /\ Href(cards[3]) = Job2
    /\ Links(jobs) = << Job2, Job1 >>

\* C7: the records assembled from the candidate list followed by itself are
\* the records of the run over the candidate list.
C7_Idempotent ==
    CardsDone =>
        /\ Assemble(cards \o cards).jobs = jobs
        /\ ~Assemble(cards \o cards).raised

\* A list with a duplicate and two records.
C7_Witness ==
    /\ CardsDone
    /\ Len(cards) = 3
    /\ Len(jobs) = 2
    /\ Assemble(cards \o cards).jobs = jobs

\* C8 as stated: no two records have links that are equal after trimming.
C8_Claim ==
    \A i, j \in 1..Len(jobs) : i # j => Strip(jobs[i].link) # Strip(jobs[j].link)

\* C9 as stated: no record has a link that is empty after trimming, and
\* no such href is in seen.
C9_Claim ==
    /\ \A n \in 1..Len(jobs) : Strip(jobs[n].link) # EmptyStr
    /\ \A h \in seen : Strip(h) # EmptyStr

----------------------------------------------------------------------------
(* Properties of the field extraction (checked under SpecExtract)          *)

\* The href of the i-th candidate is a non-empty string read without error
\* that no earlier candidate has.
NewHref(i) ==
    /\ cards[i].href \notin { None, Raises, EmptyStr }
    /\ \A j \in 1..(i - 1) : Href(cards[j]) # Href(cards[i])

RecordsOf(l) == { n \in 1..Len(jobs) : jobs[n].link = l }

\* C11 as stated: no error of a title or location query leaves the
\* candidate loop: when the loop is left by an exception, it is the read of
\* href that raised.
C11_Claim ==
    raisedAt = "cards" => cards[idx].href = Raises

\* A candidate with no own text, no aria-label and no heading or location
\* element in itself or under its parent.
NoFields(a) ==
    /\ a.text # Raises /\ Strip(a.text) = EmptyStr
    /\ a.aria = None
    /\ a.heading = Missing /\ a.loc = Missing /\ a.ploc = Missing

\* C12: every consumed candidate with a new non-empty href and no text,
\* label, heading or location anywhere yields, without raising, exactly one
\* record, with empty title and location and its href as link.
C12_EmptySafe ==
    \A i \in 1..idx :
        (NoFields(cards[i]) /\ NewHref(i)) =>
            /\ ~(i = idx /\ raisedAt = "cards")
            /\ Cardinality(RecordsOf(Href(cards[i]))) = 1
            /\ \A n \in RecordsOf(Href(cards[i])) :
                  jobs[n] = [ title |-> EmptyStr, location |-> EmptyStr, link |-> Href(cards[i]) ]

\* A run ends normally having written the row of a candidate with no fields
\* and the row of the candidate after it.
C12_Witness ==
    /\ pc = "done"
    /\ exitCode = 0
    /\ cards = << Elem(Job1, EmptyStr, None, Missing, Missing, Missing), Anchor(Job2, Analyst) >>
    /\ csvRows = << HeaderRow, << EmptyStr, EmptyStr, Job1 >>, << Analyst, Strip(Lisbon), Job2 >> >>

----------------------------------------------------------------------------
(* Properties of the run as a whole (checked under Spec)                   *)

BeforeWrite == BeforeCollect \cup { "collect", "cards", "write" }

\* C13: jobs.csv is not opened before the loop over the candidates has
\* consumed them all; once opened it holds the header title,location,link
\* and then one row per record of jobs, in order; and every run that goes
\* through the end of the loop and ends without an exception (the open of
\* line 86 being the only statement left that can raise) has written it,
\* also when there are no records.
C13_WriteAfterAssembly ==
    /\ pc \in BeforeWrite => (~csvOpened /\ csvRows = << >>)
    /\ csvOpened =>
          /\ idx = Len(cards) /\ raisedAt = "none"
          /\ Len(csvRows) = Len(jobs) + 1
          /\ csvRows[1] = << << "t", "i", "t", "l", "e" >>,
                             << "l", "o", "c", "a", "t", "i", "o", "n" >>,
                             << "l", "i", "n", "k" >> >>
          /\ \A n \in 1..Len(jobs) :
                csvRows[n + 1] = << jobs[n].title, jobs[n].location, jobs[n].link >>
    /\ (pc \in { "finally", "done" } /\ raisedAt = "none") => csvOpened

\* Candidates were found, none gave a record, and the file holds the header
\* alone.
C13_Witness ==
    /\ pc = "done"
    /\ Len(cards) >= 1
    /\ jobs = << >>
    /\ csvOpened
    /\ Len(csvRows) = 1

\* C14 as stated: a run that acquired the session and in which nothing
\* failed, or only the initial wait, the scrolling, the collection or the
\* field extraction failed, ends with exit code 0.
C14_Claim ==
    (/\ pc = "done"
     /\ acquired >= 1
     /\ raisedAt \in { "none", "wait", "measure0", "scroll", "collect", "cards" })
        => exitCode = 0

\* The positions at which main() holds the session and may use it.
InTry == { "get", "wait", "measure0", "scroll", "collect", "cards", "write", "finally" }

\* C15 as stated: the session is created at most once and before any page
\* command, it is open and neither quit nor created again from then until
\* the finally block, the file is written while it is still open, and a
\* run that created it ends having quit it exactly once.
C15_Claim ==
    /\ acquired <= 1 /\ released <= acquired
    /\ pc = "acquire" => (acquired = 0 /\ driver = "none")
    /\ pc \in InTry => (driver = "open" /\ acquired = 1 /\ released = 0)
    /\ (pc = "done" /\ acquired = 1) => (driver = "quit" /\ released = 1)
    /\ (released = 1 /\ raisedAt = "none") => csvOpened

\* The positions of the statements of the try block that come before the
\* end of the loop over the candidates.
BeforeLoopEnd == { "get", "wait", "measure0", "scroll", "collect", "cards" }

\* C22 as stated: every run that created the session ends having quit it
\* exactly once, whatever raised after the creation; the session is never
\* quit twice; and when the exception came before the loop over the
\* candidates had finished, jobs.csv has not been opened.
C22_Claim ==
    /\ released <= 1
    /\ (pc = "done" /\ acquired >= 1) => released = 1
    /\ raisedAt \in (BeforeLoopEnd \cup { "maximize" }) => (~csvOpened /\ csvRows = << >>)

----------------------------------------------------------------------------
(* Further properties of the scroll loop (checked under SpecScroll)        *)

\* C16 as stated: on a page whose height is already stable, every reading
\* being equal to the first, the loop converges on cycle 1.
C16_Original ==
    (LoopExited /\ settleAt = 0) => (Converged /\ cycles = 1)

\* C16 as amended: on such a page the loop converges on cycle
\* stabilityThreshold, after two scroll-and-measure cycles.
C16_StablePage ==
    (LoopExited /\ settleAt = 0) =>
        /\ Converged
        /\ cycles = stabilityThreshold
        /\ hist = << page, page, page >>

\* The loop has just ended on a page that never changed.
C16_Witness ==
    /\ pc = "collect"
    /\ settleAt = 0
    /\ hist = << 200, 200, 200 >>

\* The step is an iteration of the scroll loop that took its reading.
CycleStep == pc = "scroll" /\ cycles' = cycles + 1

\* C17: in every scroll cycle a reading equal to the previous one adds
\* exactly 1 to the streak; a different reading, larger or smaller, sets
\* the streak to 0, raises nothing and is the value the next reading is
\* compared with; and the loop is left as converged exactly when the streak
\* reaches stabilityThreshold.
C17_StreakRule ==
    [][ CycleStep =>
          /\ page' = last_height => stable_rounds' = stable_rounds + 1
          /\ page' # last_height =>
                (stable_rounds' = 0 /\ last_height' = page' /\ raisedAt' = "none")
          /\ (stable_rounds' >= stabilityThreshold) <=> (pc' = "collect" /\ page' = last_height /\ stable_rounds' = stabilityThreshold)
          /\ stable_rounds' < stabilityThreshold => (pc' = "scroll" \/ cycles' = maxCycles)
      ]_vars

\* The page has shrunk, the streak built before is gone and the loop goes on.
C17_Witness ==
    /\ pc = "scroll"
    /\ hist = << 200, 200, 100 >>
    /\ stable_rounds = 0
    /\ last_height = 100

\* The last n readings taken, the oldest first.
LastReadings(n) == SubSeq(hist, Len(hist) - n + 1, Len(hist))

\* The baseline and the stabilityThreshold readings after it are all equal.
StableTail ==
    /\ Len(hist) >= stabilityThreshold + 1
    /\ \A i \in 1..(stabilityThreshold + 1) :
          LastReadings(stabilityThreshold + 1)[i] = last_height

\* C21: in every state the streak is between 0 and stabilityThreshold and
\* at most maxCycles cycles have run; when the loop is left, by the break
\* or by the end of the range, at least stabilityThreshold cycles have run;
\* it is left as converged exactly when the last three readings, the
\* baseline and the two after it, are equal; when it is left without
\* convergence exactly maxCycles cycles were used; and a streak completed by
\* the reading of cycle maxCycles is convergence.
C21_ExitCharacterisation ==
    /\ 0 <= stable_rounds /\ stable_rounds <= stabilityThreshold
    /\ 0 <= cycles /\ cycles <= maxCycles
    /\ LoopExited =>
          /\ cycles >= stabilityThreshold
          /\ Converged <=> StableTail
          /\ ~Converged => cycles = maxCycles
          /\ (cycles = maxCycles /\ StableTail) => stable_rounds = stabilityThreshold

\* The streak is completed by the reading of the last cycle of the budget.
C21_Witness ==
    /\ pc = "collect"
    /\ cycles = maxCycles
    /\ stable_rounds = stabilityThreshold
    /\ LastReadings(4) = << 100, 200, 200, 200 >>

----------------------------------------------------------------------------
(* Properties of the title and location chains (checked under SpecExtract) *)

\* The first non-empty string of a sequence of strings, or the empty string.
FirstNonEmpty(ss) ==
    IF \A i \in 1..Len(ss) : ss[i] = EmptyStr THEN EmptyStr
    ELSE ss[CHOOSE i \in 1..Len(ss) :
                /\ ss[i] # EmptyStr
                /\ \A j \in 1..(i - 1) : ss[j] = EmptyStr]

\* What a lookup that may find nothing contributes: the trimmed text found.
Found(x) == IF x = Missing THEN EmptyStr ELSE Strip(x)

\* The element the record jobs[n] was built from.
SourceOf(n) == cards[FirstWith(jobs[n].link)]

\* The element of the latest iteration, when that iteration read its text.
Latest == cards[idx]

\* C18: the title of every record is the first non-empty of its element's
\* trimmed own text, trimmed aria-label and trimmed heading text, in this
\* order, and the empty string when all are empty or missing; the
\* aria-label is read exactly when the own text is empty, and the heading
\* is looked up exactly when own text and aria-label are both empty.
C18_TitleChain ==
    /\ \A n \in 1..Len(jobs) :
          LET a == SourceOf(n)
          IN  /\ jobs[n].title =
                    FirstNonEmpty(<< Strip(a.text), Strip(OrEmpty(a.aria)), Found(a.heading) >>)
              /\ jobs[n].title \notin { None, Missing, Raises }
    /\ "text" \in calls =>
          /\ "aria" \in calls <=> (Latest.text # Raises /\ Strip(Latest.text) = EmptyStr)
          /\ "heading" \in calls <=>
                /\ "aria" \in calls
                /\ Latest.aria # Raises
                /\ Strip(OrEmpty(Latest.aria)) = EmptyStr

\* Own text and aria-label are blank and the title is the heading's text.
C18_Witness ==
    /\ csvOpened
    /\ Len(cards) = 1
    /\ cards[1].text = Blank /\ cards[1].aria = Blank /\ cards[1].heading = Heading
    /\ jobs[1].title = << "P", "i", "l", "o", "t" >>
    /\ { "aria", "heading" } \subseteq calls

\* The parent's subtree is searched exactly when the element's own subtree
\* gave no location element.
ParentIffNotFound ==
    "loc" \in calls => ("parent" \in calls <=> Latest.loc = Missing)

\* C19 as stated: the location of every record is the first non-empty of
\* the trimmed text of the element's location descendant and the trimmed
\* text of the location element under its parent, and the parent's subtree
\* is searched exactly when the descendant search found nothing.
C19_Original ==
    /\ \A n \in 1..Len(jobs) :
          jobs[n].location =
              FirstNonEmpty(<< Found(SourceOf(n).loc), Found(SourceOf(n).ploc) >>)
    /\ ParentIffNotFound

\* C19 as amended: the location of every record is the trimmed text of the
\* element's location descendant when one is found, be it empty; else the
\* trimmed text of the location element under its parent when one is found;
\* else the empty string; and the parent's subtree is searched exactly when
\* the descendant search found nothing.
C19_LocationChain ==
    /\ \A n \in 1..Len(jobs) :
          LET a == SourceOf(n)
          IN  jobs[n].location =
                  IF a.loc # Missing THEN Strip(a.loc)
                  ELSE IF a.ploc # Missing THEN Strip(a.ploc)
                  ELSE EmptyStr
    /\ ParentIffNotFound

\* The location descendant is found with blank text, the parent holds a
\* location, and the record's location is empty.
C19_Witness ==
    /\ csvOpened
    /\ Len(cards) = 1
    /\ cards[1].loc = Blank /\ cards[1].ploc = Lisbon
    /\ jobs[1].location = EmptyStr
    /\ "loc" \in calls /\ "parent" \notin calls

----------------------------------------------------------------------------
(* Properties of the candidate collection (checked under SpecCollect)      *)

\* find_elements has returned.
Collected ==
    \/ pc \in { "cards", "write" }
    \/ pc \in { "finally", "done" } /\ raisedAt \notin (BeforeCollect \cup { "collect" })

MatchesSome(n) == n.matches # { }

\* The elements of the nodes of d that match a selector, in document order.
MatchingInOrder(d) ==
    LET sel == SelectSeq(d, MatchesSome)
    IN  [ i \in 1..Len(sel) |-> sel[i].el ]

\* C20 as stated: cards is the concatenation, in selector order, of the
\* elements matching each selector, an element matching several selectors
\* being there once per selector.
C20_Original ==
    Collected => cards = FindElements_perPattern(dom)

\* C20 as amended: cards holds each element matching at least one selector
\* of the group exactly once, in document order, and the records follow
\* the first occurrences of the hrefs in that order.
C20_Collection ==
    /\ Collected => cards = MatchingInOrder(dom)
    /\ CardsDone => Links(jobs) = FirstOccurrences(Hrefs(MatchingInOrder(dom)))

\* A node matching the second selector stands before a node that matches
\* the first and the third, with a node matching nothing between them.
C20_Witness ==
    /\ csvOpened
    /\ dom = << Node(Anchor(Careers9, Engineer), { SelCareers }),
                Node(Bare(None), { }),
                Node(Anchor(Job1, Engineer), { SelJobs, SelClassJob }) >>
    /\ Len(cards) = 2
    /\ Links(jobs) = << Careers9, Job1 >>

====
